---- MODULE Spec2Model ----
(***************************************************************************)
(* A state-machine model of the scope engine of tally (src/scope.go):      *)
(* lazy double-checked metric registration, the subscope registry, the     *)
(* bucket-storage cache, the periodic reporting loop with its shutdown     *)
(* protocol, and Snapshot.                                                 *)
(*                                                                         *)
(* Go values are represented as follows.                                   *)
(*   string            a TLA+ string, + is \o                              *)
(*   map[string]string a reference (index) into the heap `maps`; 0 is nil  *)
(*   *counter, ...     a reference (index) into the heap `objs`            *)
(*   uint64            a pair <<hi, lo>> of 32-bit halves                  *)
(*   time.Duration,    a token naming the Go literal ("10ms", "5e-324"),   *)
(*   float64           converted to its 64-bit word by table               *)
(*   sync.RWMutex      [w, r, p]: the writer, the readers, the writers     *)
(*                     waiting in Lock (which hold back new readers)       *)
(***************************************************************************)
EXTENDS Integers, Sequences, FiniteSets, TLC

\* ------------------------------------------------------------------ bounds
NumThreads == 2
MaxCalls == 2
MaxTreeCalls == 2
MaxSnaps == 2
MaxTreeOps == 2
MaxSnapSteps == 5
MaxOps == 1
MaxTicks == 1
MaxCloses == 2

Threads == 1..NumThreads
\* the goroutine started by `go s.reportLoop(interval)`
LoopThread == 0
\* the nil map / nil pointer
NilRef == 0

Kinds == {"counter", "gauge", "timer", "histogram"}
SweptKinds == {"counter", "gauge", "histogram"}

\* ------------------------------------------------------- inputs (bounded)
Names == {"a", "b"}
AllNames == Names \cup {"q", "db.q"}
TagKeys == {"env", "region"}
TagVals == {"prod", "staging", "us"}
\* every map[string]string over the bounded keys and values
TagMaps == UNION {[K -> TagVals] : K \in SUBSET TagKeys}

DurationBuckets(vals) == [type |-> "duration", vals |-> vals]
ValueBuckets(vals) == [type |-> "value", vals |-> vals]
\* a Buckets implementation that is neither DurationBuckets nor ValueBuckets
OtherBuckets == [type |-> "other", vals |-> <<>>]
NilBuckets == [type |-> "nil", vals |-> <<>>]

defaultScopeBuckets ==
  DurationBuckets(<<"0", "10ms", "25ms", "50ms", "75ms", "100ms", "200ms",
                    "300ms", "400ms", "500ms", "600ms", "800ms", "1s", "2s",
                    "5s">>)

\* ------------------------------------------------------------- conversions
\* uint64(dur): the nanosecond count of a non-negative Duration as a word
DurationToUint64(dur) ==
  CASE dur = "0" -> <<0, 0>>
    [] dur = "1ns" -> <<0, 1>>
    [] dur = "2ns" -> <<0, 2>>
    [] dur = "10ms" -> <<0, 10000000>>
    [] dur = "25ms" -> <<0, 25000000>>
    [] dur = "50ms" -> <<0, 50000000>>
    [] dur = "75ms" -> <<0, 75000000>>
    [] dur = "100ms" -> <<0, 100000000>>
    [] dur = "200ms" -> <<0, 200000000>>
    [] dur = "300ms" -> <<0, 300000000>>
    [] dur = "400ms" -> <<0, 400000000>>
    [] dur = "500ms" -> <<0, 500000000>>
    [] dur = "600ms" -> <<0, 600000000>>
    [] dur = "800ms" -> <<0, 800000000>>
    [] dur = "1s" -> <<0, 1000000000>>
    [] dur = "2s" -> <<0, 2000000000>>
    [] dur = "5s" -> <<1, 705032704>>

\* math.Float64bits(val): the IEEE-754 word of a float64
Float64bits(val) ==
  CASE val = "0" -> <<0, 0>>
    [] val = "5e-324" -> <<0, 1>>
    [] val = "1" -> <<1072693248, 0>>
    [] val = "2" -> <<1073741824, 0>>

\* identity.Accumulator: an ordered fold of the words added, taken to be
\* free of collisions (the value is the sequence of words folded).
NewAccumulator == <<>>
AddUint64(acc, u) == Append(acc, u)
AccValue(acc) == acc

RECURSIVE AddUint64s(_, _)
AddUint64s(acc, words) ==
  IF words = <<>> THEN acc
  ELSE AddUint64s(AddUint64(acc, Head(words)), Tail(words))

\* getBucketsIdentity; "panic" stands for the failed type assertion
\* buckets.(ValueBuckets) of line 106
getBucketsIdentity(buckets) ==
  IF buckets.type = "duration"
  THEN AccValue(AddUint64s(NewAccumulator,
           [i \in 1..Len(buckets.vals) |-> DurationToUint64(buckets.vals[i])]))
  ELSE IF buckets.type = "value"
       THEN AccValue(AddUint64s(NewAccumulator,
                [i \in 1..Len(buckets.vals) |-> Float64bits(buckets.vals[i])]))
       ELSE "panic"

\* the no-op sanitizer (sanitizer.Name/Key/Value), newRootScope's default
SanitizeName(n) == n
SanitizeKey(k) == k
SanitizeValue(v) == v

DefaultSeparator == "."

\* fullyQualifiedName on the fields it reads
FullyQualifiedNameNoEmptyCheck(prefix, separator, name) ==
  prefix \o separator \o name
fullyQualifiedName(prefix, separator, name) ==
  IF Len(prefix) = 0 THEN name ELSE prefix \o separator \o name

\* ------------------------------------------------------------ tag maps
\* the value of a map reference (a nil map reads as the empty map)
MapOf(heap, ref) == IF ref = NilRef THEN <<>> ELSE heap[ref]
MapLen(heap, ref) == Cardinality(DOMAIN MapOf(heap, ref))

\* copyAndSanitizeMap on a map value: the content of the fresh map
copyAndSanitizeMap(m) ==
  [k \in {SanitizeKey(j) : j \in DOMAIN m} |->
     SanitizeValue(m[CHOOSE j \in DOMAIN m : SanitizeKey(j) = k])]

\* the content of the map built at lines 669-676
MergedLeftWins(l, r) ==
  [k \in DOMAIN l \cup DOMAIN r |-> IF k \in DOMAIN l THEN l[k] ELSE r[k]]
MergedContent(l, r) ==
  [k \in DOMAIN l \cup DOMAIN r |-> IF k \in DOMAIN r THEN r[k] ELSE l[k]]

\* a merge that writes the right side's tags into the left map itself
MergeIntoLeft(heap, tagsLeft, tagsRight) ==
  IF tagsLeft = NilRef /\ tagsRight = NilRef
  THEN [ref |-> NilRef, heap |-> heap]
  ELSE IF MapLen(heap, tagsRight) = 0
       THEN [ref |-> tagsLeft, heap |-> heap]
       ELSE IF MapLen(heap, tagsLeft) = 0
            THEN [ref |-> tagsRight, heap |-> heap]
            ELSE [ref |-> tagsLeft,
                  heap |-> [heap EXCEPT ![tagsLeft] =
                              MergedContent(MapOf(heap, tagsLeft),
                                            MapOf(heap, tagsRight))]]

\* mergeRightTags on references: [ref, heap] where ref is the returned map
\* and heap the heap after the call (a new map is allocated only when both
\* sides are non-empty; otherwise one of the arguments itself is returned)
mergeRightTags(heap, tagsLeft, tagsRight) ==
  IF tagsLeft = NilRef /\ tagsRight = NilRef
  THEN [ref |-> NilRef, heap |-> heap]
  ELSE IF MapLen(heap, tagsRight) = 0
       THEN [ref |-> tagsLeft, heap |-> heap]
       ELSE IF MapLen(heap, tagsLeft) = 0
            THEN [ref |-> tagsRight, heap |-> heap]
            ELSE [ref |-> Len(heap) + 1,
                  heap |-> Append(heap, MergedContent(MapOf(heap, tagsLeft),
                                                      MapOf(heap, tagsRight)))]

\* ------------------------------------------------------------ sync.RWMutex
FreeMutex == [w |-> {}, r |-> {}, p |-> {}]
CanRLock(mu) == mu.w = {} /\ mu.p = {}
RLock(mu, t) == [mu EXCEPT !.r = @ \cup {t}]
RUnlock(mu, t) == [mu EXCEPT !.r = @ \ {t}]
LockBegin(mu, t) == [mu EXCEPT !.p = @ \cup {t}]
CanLock(mu, t) == mu.w = {} /\ mu.r = {} /\ t \in mu.p
Lock(mu, t) == [mu EXCEPT !.w = {t}, !.p = @ \ {t}]
Unlock(mu, t) == [mu EXCEPT !.w = @ \ {t}]

\* ------------------------------------------------------------------ state
VARIABLES
  cfg,          \* ScopeOptions and interval as newRootScope received them
  maps,         \* heap of tag maps (map[string]string objects)
  scopes,       \* heap of scope objects; scope 1 is the root
  registry,     \* scopeRegistry.subscopes: identity key -> scope
  registryMu,   \* the registry's own lock
  objs,         \* heap of metric and bucket-storage objects
  status,       \* root scope's scopeStatus: closed, quit, its RWMutex
  ticker,       \* the reporting loop's ticker channel
  loopPc,       \* position of the reportLoop goroutine
  pc,           \* position of each caller thread
  frame,        \* the locals of each caller thread's current call
  reporterLog,  \* every call received by the reporter, in order
  handles,      \* handles allocated by the cached reporter, in order
  allocLog,     \* history: every metric allocation <<scope, kind, name, obj>>,
                \* with the resolved bucket set as fifth item for a histogram
  returned,     \* history: every value returned by a registration call
  closeLog,     \* history: what each Close call did and returned
  snaps,        \* the snapshots returned by Snapshot, in order
  paths,        \* history: the SubScope segments each scope was reached by
  ncalls        \* history: number of calls started, by sort (bounds the run)

vars == <<cfg, maps, scopes, registry, registryMu, objs, status, ticker, loopPc,
          pc, frame, reporterLog, handles, allocLog, returned, closeLog, snaps,
          paths, ncalls>>

\* ----------------------------------------------------------- construction
Configs ==
  [reporter : {"none", "push", "cached", "both"},
   interval : {-1, 0, 1},
   prefix : {"", "svc"},
   tags : TagMaps,
   closer : {"none", "ok", "err"}]

HasReporter(c) == c.reporter \in {"push", "both"}
HasCachedReporter(c) == c.reporter \in {"cached", "both"}

IdleFrame == [op |-> "idle", s |-> NilRef, name |-> "", b |-> NilBuckets,
              htype |-> "", tags |-> <<>>, seg |-> "", l |-> NilRef, r |-> NilRef,
              res |-> NilRef, at |-> NilRef, ix |-> 0]

\* the scope literal of newRootScope (lines 174-195), also used for subscopes
NewScope(prefix, tagsRef) ==
  [prefix |-> prefix,
   tags |-> tagsRef,
   maps |-> [k \in Kinds |-> <<>>],
   slices |-> [k \in SweptKinds |-> <<>>],
   bucketCache |-> <<>>,
   mu |-> [k \in Kinds |-> FreeMutex]]

\* the identity a scope is registered under
ScopeKey(prefix, tagsContent) == <<prefix, tagsContent>>

\* lines 204-206: the reporting loop is started for a positive interval only
LoopAlwaysStarted(interval) == TRUE
LoopStarted(interval) == interval > 0

\* the state newRootScope leaves for options c
InitRest(c) ==
  /\ cfg = c
  /\ scopes = <<NewScope(SanitizeName(c.prefix), 1)>>
  /\ registry = (ScopeKey(SanitizeName(c.prefix), copyAndSanitizeMap(c.tags)) :> 1)
  /\ registryMu = FreeMutex
  /\ objs = <<>>
  /\ status = [closed |-> FALSE, quit |-> "open", mu |-> FreeMutex]
  /\ ticker = [pending |-> FALSE, stopped |-> FALSE, fired |-> 0, dropped |-> FALSE]
  /\ loopPc = IF LoopStarted(c.interval) THEN "select" ELSE "none"
  /\ reporterLog = <<>>
  /\ handles = <<>>
  /\ allocLog = <<>>
  /\ returned = {}
  /\ closeLog = <<>>
  /\ snaps = <<>>
  /\ paths = <<{<<c.prefix>>}>>
  /\ ncalls = [reg |-> 0, close |-> 0, upd |-> 0, tree |-> 0, snap |-> 0]

InitState(c) ==
  /\ InitRest(c)
  /\ maps = <<copyAndSanitizeMap(c.tags)>>
  /\ pc = [t \in Threads |-> "idle"]
  /\ frame = [t \in Threads \cup {LoopThread} |-> IdleFrame]

\* s.fullyQualifiedName(name) for scope object sc
ScopeFQN(sc, name) == fullyQualifiedName(sc.prefix, DefaultSeparator, name)

\* ------------------------------------------- registration (lines 295-453)
progVars == <<cfg, maps, registry, registryMu, status, ticker, loopPc,
              reporterLog, closeLog, snaps, paths>>

Return(t, inst, via) ==
  /\ returned' = returned \cup
       {[s |-> frame[t].s, kind |-> frame[t].op, name |-> frame[t].name,
         tags |-> frame[t].tags, seg |-> frame[t].seg, b |-> frame[t].b,
         inst |-> inst, via |-> via]}
  /\ pc' = [pc EXCEPT ![t] = "idle"]
  /\ frame' = [frame EXCEPT ![t] = IdleFrame]

\* entry of Counter/Gauge/Timer/Histogram: sanitize the name
CallRegister(t, s, k, n, b) ==
  /\ pc[t] = "idle"
  /\ ncalls.reg < MaxCalls
  /\ s \in 1..Len(scopes)
  /\ frame' = [frame EXCEPT ![t] =
                 [IdleFrame EXCEPT !.op = k, !.s = s, !.name = SanitizeName(n),
                                   !.b = b]]
  /\ pc' = [pc EXCEPT ![t] = "fast_rlock"]
  /\ ncalls' = [ncalls EXCEPT !.reg = @ + 1]
  /\ UNCHANGED <<progVars, scopes, objs, handles, allocLog, returned>>

Counter(t, s, n) == CallRegister(t, s, "counter", n, NilBuckets)
Gauge(t, s, n) == CallRegister(t, s, "gauge", n, NilBuckets)
Timer(t, s, n) == CallRegister(t, s, "timer", n, NilBuckets)
Histogram(t, s, n, b) == CallRegister(t, s, "histogram", n, b)

\* s.counter(name) etc.: take the kind's read lock
FastRLock(t) ==
  /\ pc[t] = "fast_rlock"
  /\ LET s == frame[t].s
         k == frame[t].op
     IN /\ CanRLock(scopes[s].mu[k])
        /\ scopes' = [scopes EXCEPT ![s].mu[k] = RLock(@, t)]
  /\ pc' = [pc EXCEPT ![t] = "fast_lookup"]
  /\ UNCHANGED <<progVars, objs, handles, allocLog, returned, frame, ncalls>>

\* the lookups of the fast path (line 327) and of the slow path (line 304)
FastPathHit(sc, k, name) == name \in DOMAIN sc.maps[k]
SlowPathNoRecheck(sc, k, name) == FALSE
SlowPathHit(sc, k, name) == name \in DOMAIN sc.maps[k]

\* Histogram lines 408-415: default buckets and the type discriminant
ResolveBuckets(b) == IF b.type = "nil" THEN defaultScopeBuckets ELSE b
HistogramTypeOf(b) ==
  IF b.type = "duration" THEN "durationHistogramType" ELSE "valueHistogramType"

\* the lookup under the read lock, its release, and the return on a hit
FastLookup(t) ==
  /\ pc[t] = "fast_lookup"
  /\ LET s == frame[t].s
         k == frame[t].op
         n == frame[t].name
     IN /\ scopes' = [scopes EXCEPT ![s].mu[k] = RUnlock(@, t)]
        /\ IF FastPathHit(scopes[s], k, n)
           THEN Return(t, scopes[s].maps[k][n], "fast")
           ELSE /\ pc' = [pc EXCEPT ![t] = "slow_lock"]
                /\ frame' = [frame EXCEPT ![t] =
                     IF k = "histogram"
                     THEN [@ EXCEPT !.b = ResolveBuckets(frame[t].b),
                                    !.htype = HistogramTypeOf(ResolveBuckets(frame[t].b))]
                     ELSE @]
                /\ UNCHANGED returned
  /\ UNCHANGED <<progVars, objs, handles, allocLog, ncalls>>

\* Lock() of the kind's mutex: announce, then acquire once it is free
SlowLockBegin(t) ==
  /\ pc[t] = "slow_lock"
  /\ scopes' = [scopes EXCEPT ![frame[t].s].mu[frame[t].op] = LockBegin(@, t)]
  /\ pc' = [pc EXCEPT ![t] = "slow_acquire"]
  /\ UNCHANGED <<progVars, objs, handles, allocLog, returned, frame, ncalls>>

SlowLockAcquire(t) ==
  /\ pc[t] = "slow_acquire"
  /\ CanLock(scopes[frame[t].s].mu[frame[t].op], t)
  /\ scopes' = [scopes EXCEPT ![frame[t].s].mu[frame[t].op] = Lock(@, t)]
  /\ pc' = [pc EXCEPT ![t] = "slow_body"]
  /\ UNCHANGED <<progVars, objs, handles, allocLog, returned, frame, ncalls>>

\* cachedReporter.AllocateCounter/Gauge/Timer/Histogram: the handle records
\* what it was allocated for
NewHandle(k, name, tagsRef, b) ==
  [kind |-> k, name |-> name, tags |-> tagsRef, buckets |-> b]

\* the metric objects
newCounter(cached) == [kind |-> "counter", curr |-> 0, prev |-> 0, cached |-> cached]
newGauge(cached) == [kind |-> "gauge", curr |-> 0, updated |-> FALSE, cached |-> cached]
newTimer(name, tagsRef, cached) ==
  [kind |-> "timer", name |-> name, tags |-> tagsRef, cached |-> cached,
   unreported |-> <<>>]
newBucketStorage(htype, b, cached) ==
  [kind |-> "storage", htype |-> htype, buckets |-> b, cached |-> cached]
newHistogram(htype, name, tagsRef, storage) ==
  [kind |-> "histogram", htype |-> htype, name |-> name, tags |-> tagsRef,
   storage |-> storage, samples |-> <<>>]

\* lines 308-318 (and the same lines of Gauge and Timer): allocate the cached
\* handle, allocate the metric, insert it in the map and the sweep sequence.
\* The result holds the heaps after the insertion and the new object.
InsertSimple(s, k, n) ==
  LET sc == scopes[s]
      cached == IF HasCachedReporter(cfg) THEN Len(handles) + 1 ELSE NilRef
      id == Len(objs) + 1
      obj == CASE k = "counter" -> newCounter(cached)
               [] k = "gauge" -> newGauge(cached)
               [] k = "timer" -> newTimer(ScopeFQN(sc, n), sc.tags, cached)
  IN [id |-> id,
      handles |-> IF HasCachedReporter(cfg)
                  THEN Append(handles, NewHandle(k, ScopeFQN(sc, n), sc.tags, NilBuckets))
                  ELSE handles,
      objs |-> Append(objs, obj),
      scopes |-> [scopes EXCEPT
                    ![s].maps[k] = (n :> id) @@ @,
                    ![s].slices = IF k \in SweptKinds
                                  THEN [@ EXCEPT ![k] = Append(@, id)] ELSE @],
      alloc |-> <<<<s, k, n, id>>>>]

\* lines 424-442 of Histogram: allocate the cached handle, find or create the
\* bucket storage, allocate and insert the histogram. id is NilRef when the
\* type assertion of getBucketsIdentity panics (after the handle allocation).
InsertHistogram(s, n, b, htype) ==
  LET sc == scopes[s]
      cached == IF HasCachedReporter(cfg) THEN Len(handles) + 1 ELSE NilRef
      newHandles == IF HasCachedReporter(cfg)
                    THEN Append(handles, NewHandle("histogram", ScopeFQN(sc, n), sc.tags, b))
                    ELSE handles
      bid == getBucketsIdentity(b)
      hit == bid \in DOMAIN sc.bucketCache
      storage == IF hit THEN sc.bucketCache[bid] ELSE Len(objs) + 1
      withStorage == IF hit THEN objs
                     ELSE Append(objs, newBucketStorage(htype, b, cached))
      id == Len(withStorage) + 1
  IN IF bid = "panic"
     THEN [id |-> NilRef, handles |-> newHandles, objs |-> objs,
           scopes |-> scopes, alloc |-> <<>>]
     ELSE [id |-> id,
           handles |-> newHandles,
           objs |-> Append(withStorage,
                      newHistogram(htype, ScopeFQN(sc, n), sc.tags, storage)),
           scopes |-> [scopes EXCEPT
                         ![s].bucketCache = IF hit THEN @ ELSE (bid :> storage) @@ @,
                         ![s].maps["histogram"] = (n :> id) @@ @,
                         ![s].slices["histogram"] = Append(@, id)],
           alloc |-> <<<<s, "histogram", n, id, b>>>>]

Insert(s, k, n, b, htype) ==
  IF k = "histogram" THEN InsertHistogram(s, n, b, htype) ELSE InsertSimple(s, k, n)

\* the slow path under the write lock: re-check, insert, the deferred Unlock,
\* return (lines 304-320, 420-444)
SlowBody(t) ==
  /\ pc[t] = "slow_body"
  /\ LET s == frame[t].s
         k == frame[t].op
         n == frame[t].name
         r == Insert(s, k, n, frame[t].b, frame[t].htype)
     IN IF SlowPathHit(scopes[s], k, n)
        THEN /\ scopes' = [scopes EXCEPT ![s].mu[k] = Unlock(@, t)]
             /\ Return(t, scopes[s].maps[k][n], "recheck")
             /\ UNCHANGED <<objs, handles, allocLog>>
        ELSE /\ handles' = r.handles
             /\ objs' = r.objs
             /\ scopes' = [r.scopes EXCEPT ![s].mu[k] = Unlock(@, t)]
             /\ allocLog' = allocLog \o r.alloc
             /\ Return(t, r.id, IF r.id = NilRef THEN "panic" ELSE "new")
  /\ UNCHANGED <<progVars, ncalls>>

\* the bucket sets callers pass to Histogram
BucketInputs ==
  {NilBuckets, DurationBuckets(<<"1ns">>), DurationBuckets(<<"0", "1ns">>),
   ValueBuckets(<<"5e-324">>), OtherBuckets}
RegBucketInputs == {NilBuckets, DurationBuckets(<<"1ns">>), ValueBuckets(<<"5e-324">>)}

RegNext ==
  \/ \E t \in Threads, n \in Names : Counter(t, 1, n)
  \/ \E t \in Threads, n \in Names : Gauge(t, 1, n)
  \/ \E t \in Threads, n \in Names : Timer(t, 1, n)
  \/ \E t \in Threads, n \in Names, b \in RegBucketInputs : Histogram(t, 1, n, b)
  \/ \E t \in Threads : FastRLock(t)
  \/ \E t \in Threads : FastLookup(t)
  \/ \E t \in Threads : SlowLockBegin(t)
  \/ \E t \in Threads : SlowLockAcquire(t)
  \/ \E t \in Threads : SlowBody(t)

RegInit ==
  \E r \in {"none", "cached"} :
     InitState([reporter |-> r, interval |-> 0, prefix |-> "svc",
                tags |-> <<>>, closer |-> "none"])

SpecReg == RegInit /\ [][RegNext]_vars

\* histograms alone, over every sort of bucket set, with and without a
\* cached reporter
HistBucketInputs ==
  {NilBuckets, DurationBuckets(<<"1ns">>), ValueBuckets(<<"5e-324">>), OtherBuckets}

HistNext ==
  \/ \E t \in Threads, n \in Names, b \in HistBucketInputs : Histogram(t, 1, n, b)
  \/ \E t \in Threads : FastRLock(t)
  \/ \E t \in Threads : FastLookup(t)
  \/ \E t \in Threads : SlowLockBegin(t)
  \/ \E t \in Threads : SlowLockAcquire(t)
  \/ \E t \in Threads : SlowBody(t)

SpecHist == RegInit /\ [][HistNext]_vars

\* ---------------------------------------------- metric updates (callers)
\* the registration call run to its end without interleaving: the instance
\* found by the lookups, or the one inserted by the slow path
GetOrInsert(s, k, n, b) ==
  IF FastPathHit(scopes[s], k, n) \/ SlowPathHit(scopes[s], k, n)
  THEN [id |-> scopes[s].maps[k][n], handles |-> handles, objs |-> objs,
        scopes |-> scopes, alloc |-> <<>>]
  ELSE Insert(s, k, n, ResolveBuckets(b), HistogramTypeOf(ResolveBuckets(b)))

\* counter.Inc(v): an atomic add to curr
CounterIncObj(o, v) == [o EXCEPT !.curr = @ + v]

\* s.Counter(n).Inc(v) by a caller
CounterIncCall(s, n, v) ==
  /\ s \in 1..Len(scopes)
  /\ LET r == GetOrInsert(s, "counter", SanitizeName(n), NilBuckets)
     IN /\ objs' = [r.objs EXCEPT ![r.id] = CounterIncObj(@, v)]
        /\ scopes' = r.scopes
        /\ handles' = r.handles
        /\ allocLog' = allocLog \o r.alloc
  /\ ncalls' = [ncalls EXCEPT !.upd = @ + 1]
  /\ UNCHANGED <<progVars, pc, frame, returned>>

CounterInc(s, n, v) == ncalls.upd < MaxOps /\ CounterIncCall(s, n, v)

\* ------------------------------------------------ report passes (212-293)
\* counter.value(): the delta since the last report
CounterDelta(o) == o.curr - o.prev

\* what s.report(r) hands to the push reporter for scope object sc: one
\* Report* call per metric with something to report (map order is arbitrary,
\* so a pass is recorded as the set of its calls)
ScopeReportItems(sc) ==
  {[kind |-> "counter", name |-> ScopeFQN(sc, n), tags |-> MapOf(maps, sc.tags),
    value |-> CounterDelta(objs[sc.maps["counter"][n]])] :
      n \in {m \in DOMAIN sc.maps["counter"] :
               CounterDelta(objs[sc.maps["counter"][m]]) # 0}}
  \cup
  {[kind |-> "gauge", name |-> ScopeFQN(sc, n), tags |-> MapOf(maps, sc.tags),
    value |-> objs[sc.maps["gauge"][n]].curr] :
      n \in {m \in DOMAIN sc.maps["gauge"] : objs[sc.maps["gauge"][m]].updated}}

\* what s.cachedReport() hands to the cached handles of scope object sc
ScopeCachedReportItems(sc) ==
  {[kind |-> "counter", handle |-> objs[sc.slices["counter"][i]].cached,
    value |-> CounterDelta(objs[sc.slices["counter"][i]])] :
      i \in {j \in 1..Len(sc.slices["counter"]) :
               CounterDelta(objs[sc.slices["counter"][j]]) # 0}}
  \cup
  {[kind |-> "gauge", handle |-> objs[sc.slices["gauge"][i]].cached,
    value |-> objs[sc.slices["gauge"][i]].curr] :
      i \in {j \in 1..Len(sc.slices["gauge"]) : objs[sc.slices["gauge"][j]].updated}}

\* the scopes the registry holds
RegistryScopes == {registry[key] : key \in DOMAIN registry}

\* a pass that hands the values over and does not advance the counters
ObjsNotAdvanced == objs

\* the metric objects after a pass: every counter's delta is consumed and
\* every gauge's updated flag cleared
ObjsAfterReport ==
  [i \in 1..Len(objs) |->
     IF objs[i].kind = "counter" THEN [objs[i] EXCEPT !.prev = objs[i].curr]
     ELSE IF objs[i].kind = "gauge" THEN [objs[i] EXCEPT !.updated = FALSE]
     ELSE objs[i]]

\* the first half of reportRegistryWithLock: registry.Report(s.reporter) or
\* registry.CachedReport(); `by` says whose pass it is
ReportEntries(by) ==
  IF HasReporter(cfg)
  THEN <<[op |-> "Report", by |-> by,
          items |-> UNION {ScopeReportItems(scopes[s]) : s \in RegistryScopes}]>>
  ELSE IF HasCachedReporter(cfg)
       THEN <<[op |-> "CachedReport", by |-> by,
               items |-> UNION {ScopeCachedReportItems(scopes[s]) :
                                  s \in RegistryScopes}]>>
       ELSE <<>>

ObjsAfterPass ==
  IF HasReporter(cfg) \/ HasCachedReporter(cfg) THEN ObjsAfterReport ELSE objs

ReportPass(by) ==
  /\ reporterLog' = reporterLog \o ReportEntries(by)
  /\ objs' = ObjsAfterPass

\* the second half: s.reporter.Flush() or s.cachedReporter.Flush()
FlushEntries(by) ==
  IF HasReporter(cfg) \/ HasCachedReporter(cfg)
  THEN <<[op |-> "Flush", by |-> by, items |-> {}]>>
  ELSE <<>>

FlushPass(by) == reporterLog' = reporterLog \o FlushEntries(by)

\* ----------------------------------------- the reporting loop (257-282)
loopFrame == <<cfg, maps, scopes, registry, registryMu, pc, frame, handles,
               allocLog, returned, closeLog, snaps, paths, ncalls>>

\* the ticker delivers a tick unless one is still waiting in its channel
Tick ==
  /\ ~ticker.stopped
  /\ ~ticker.pending
  /\ loopPc # "none"
  /\ ticker.fired < MaxTicks \/ status.quit = "closed"
  /\ ticker' = [ticker EXCEPT !.pending = TRUE,
                              !.fired = IF @ < MaxTicks THEN @ + 1 ELSE @]
  /\ UNCHANGED <<loopFrame, objs, status, loopPc, reporterLog>>

\* select: case <-ticker.C
LoopSelectTick ==
  /\ loopPc = "select"
  /\ ticker.pending
  /\ ticker' = [ticker EXCEPT !.pending = FALSE]
  /\ loopPc' = "run_rlock"
  /\ UNCHANGED <<loopFrame, objs, status, reporterLog>>

\* select: case <-s.status.quit, return; the deferred ticker.Stop() runs
LoopSelectQuit ==
  /\ loopPc = "select"
  /\ status.quit = "closed"
  /\ loopPc' = "done"
  /\ ticker' = [ticker EXCEPT !.stopped = TRUE]
  /\ UNCHANGED <<loopFrame, objs, status, reporterLog>>

\* reportLoopRun: s.status.RLock()
LoopRLock ==
  /\ loopPc = "run_rlock"
  /\ CanRLock(status.mu)
  /\ status' = [status EXCEPT !.mu = RLock(@, LoopThread)]
  /\ loopPc' = "run_check"
  /\ UNCHANGED <<loopFrame, objs, ticker, reporterLog>>

\* line 277: if s.status.closed
TickIgnoresClosed(st) == FALSE
TickSeesClosed(st) == st.closed

\* reportLoopRun: the closed check; a tick that finds the scope closed is
\* dropped (the deferred RUnlock runs)
LoopCheck ==
  /\ loopPc = "run_check"
  /\ IF TickSeesClosed(status)
     THEN /\ status' = [status EXCEPT !.mu = RUnlock(@, LoopThread)]
          /\ loopPc' = "select"
          /\ ticker' = [ticker EXCEPT !.dropped = TRUE]
     ELSE /\ loopPc' = "run_report"
          /\ UNCHANGED <<status, ticker>>
  /\ UNCHANGED <<loopFrame, objs, reporterLog>>

\* reportLoopRun: reportRegistryWithLock, the report half
LoopReport ==
  /\ loopPc = "run_report"
  /\ ReportPass("tick")
  /\ loopPc' = "run_flush"
  /\ UNCHANGED <<loopFrame, status, ticker>>

\* reportLoopRun: the flush half, then the deferred RUnlock
LoopFlush ==
  /\ loopPc = "run_flush"
  /\ FlushPass("tick")
  /\ status' = [status EXCEPT !.mu = RUnlock(@, LoopThread)]
  /\ loopPc' = "select"
  /\ UNCHANGED <<loopFrame, objs, ticker>>

\* --------------------------------------------------- Close (lines 536-554)
closeFrame == <<cfg, maps, scopes, registry, registryMu, handles, allocLog,
                returned, snaps, paths, ticker, loopPc>>

Close(t) ==
  /\ pc[t] = "idle"
  /\ ncalls.close < MaxCloses
  /\ pc' = [pc EXCEPT ![t] = "close_lock"]
  /\ frame' = [frame EXCEPT ![t] = [IdleFrame EXCEPT !.op = "close", !.s = 1]]
  /\ ncalls' = [ncalls EXCEPT !.close = @ + 1]
  /\ UNCHANGED <<closeFrame, objs, status, reporterLog, closeLog>>

\* s.status.Lock()
CloseLockBegin(t) ==
  /\ pc[t] = "close_lock"
  /\ status' = [status EXCEPT !.mu = LockBegin(@, t)]
  /\ pc' = [pc EXCEPT ![t] = "close_acquire"]
  /\ UNCHANGED <<closeFrame, objs, reporterLog, closeLog, frame, ncalls>>

CloseLockAcquire(t) ==
  /\ pc[t] = "close_acquire"
  /\ CanLock(status.mu, t)
  /\ status' = [status EXCEPT !.mu = Lock(@, t)]
  /\ pc' = [pc EXCEPT ![t] = "close_check"]
  /\ UNCHANGED <<closeFrame, objs, reporterLog, closeLog, frame, ncalls>>

\* line 542: if s.status.closed
CloseIgnoresClosed(st) == FALSE
CloseSeesClosed(st) == st.closed

\* the closed check: a repeated Close unlocks and returns nil
CloseCheck(t) ==
  /\ pc[t] = "close_check"
  /\ IF CloseSeesClosed(status)
     THEN /\ status' = [status EXCEPT !.mu = Unlock(@, t)]
          /\ closeLog' = Append(closeLog, [ev |-> "return", t |-> t, first |-> FALSE,
                                           ret |-> "nil"])
          /\ pc' = [pc EXCEPT ![t] = "idle"]
          /\ frame' = [frame EXCEPT ![t] = IdleFrame]
     ELSE /\ pc' = [pc EXCEPT ![t] = "close_mark"]
          /\ UNCHANGED <<status, closeLog, frame>>
  /\ UNCHANGED <<closeFrame, objs, reporterLog, ncalls>>

\* close(ch): closing a closed channel panics
CloseChannelNoSignal(q) == q
CloseChannel(q) == IF q = "open" THEN "closed" ELSE "panic"

\* lines 546-547: s.status.closed = true; close(s.status.quit). A panic
\* unwinds through the deferred Unlock.
CloseMark(t) ==
  /\ pc[t] = "close_mark"
  /\ IF CloseChannel(status.quit) = "panic"
     THEN /\ status' = [status EXCEPT !.closed = TRUE, !.mu = Unlock(@, t)]
          /\ closeLog' = closeLog \o
               <<[ev |-> "closed", t |-> t, first |-> ~status.closed, ret |-> ""],
                 [ev |-> "return", t |-> t, first |-> ~status.closed, ret |-> "panic"]>>
          /\ pc' = [pc EXCEPT ![t] = "idle"]
          /\ frame' = [frame EXCEPT ![t] = IdleFrame]
     ELSE /\ status' = [status EXCEPT !.closed = TRUE,
                                      !.quit = CloseChannel(status.quit)]
          /\ closeLog' = closeLog \o
               <<[ev |-> "closed", t |-> t, first |-> ~status.closed, ret |-> ""]>>
               \o (IF CloseChannel(status.quit) # status.quit
                   THEN <<[ev |-> "quit", t |-> t, first |-> ~status.closed, ret |-> ""]>>
                   ELSE <<>>)
          /\ pc' = [pc EXCEPT ![t] = "close_report"]
          /\ UNCHANGED frame
  /\ UNCHANGED <<closeFrame, objs, reporterLog, ncalls>>

\* a closer that fails, and one whose error Close drops
CloserResultDropped(c) == "nil"

\* line 548: s.reportRegistryWithLock(), the report half
CloseReport(t) ==
  /\ pc[t] = "close_report"
  /\ ReportPass("close")
  /\ closeLog' = Append(closeLog, [ev |-> "final", t |-> t, first |-> TRUE, ret |-> ""])
  /\ pc' = [pc EXCEPT ![t] = "close_flush"]
  /\ UNCHANGED <<closeFrame, status, frame, ncalls>>

\* line 548: the flush half
CloseFlush(t) ==
  /\ pc[t] = "close_flush"
  /\ FlushPass("close")
  /\ pc' = [pc EXCEPT ![t] = "close_closer"]
  /\ UNCHANGED <<closeFrame, objs, status, closeLog, frame, ncalls>>

\* s.baseReporter.(io.Closer): the reporter chosen at lines 163-168, if it is
\* a Closer; the result of closer.Close()
CloserResult(c) ==
  IF c.reporter = "none" \/ c.closer = "none" THEN "nil"
  ELSE IF c.closer = "err" THEN "err" ELSE "nil"

\* lines 550-553 and the deferred Unlock
CloseCloser(t) ==
  /\ pc[t] = "close_closer"
  /\ reporterLog' = IF cfg.reporter # "none" /\ cfg.closer # "none"
                    THEN Append(reporterLog, [op |-> "Close", by |-> "close", items |-> {}])
                    ELSE reporterLog
  /\ closeLog' = Append(closeLog, [ev |-> "return", t |-> t, first |-> TRUE,
                                   ret |-> CloserResult(cfg)])
  /\ status' = [status EXCEPT !.mu = Unlock(@, t)]
  /\ pc' = [pc EXCEPT ![t] = "idle"]
  /\ frame' = [frame EXCEPT ![t] = IdleFrame]
  /\ UNCHANGED <<closeFrame, objs, ncalls>>

CloseNext ==
  \/ Tick
  \/ LoopSelectTick
  \/ LoopSelectQuit
  \/ LoopRLock
  \/ LoopCheck
  \/ LoopReport
  \/ LoopFlush
  \/ \E t \in Threads : Close(t)
  \/ \E t \in Threads : CloseLockBegin(t)
  \/ \E t \in Threads : CloseLockAcquire(t)
  \/ \E t \in Threads : CloseCheck(t)
  \/ \E t \in Threads : CloseMark(t)
  \/ \E t \in Threads : CloseReport(t)
  \/ \E t \in Threads : CloseFlush(t)
  \/ \E t \in Threads : CloseCloser(t)
  \/ \E n \in Names : CounterInc(1, n, 1)

CloseInit ==
  \E r \in {"push", "cached"}, cl \in {"none", "err"} :
     InitState([reporter |-> r, interval |-> 1, prefix |-> "svc",
                tags |-> <<>>, closer |-> cl])

SpecClose == CloseInit /\ [][CloseNext]_vars

\* ------------------------------- Tagged, SubScope, the registry (455-467)
treeFrame == <<cfg, objs, status, ticker, loopPc, reporterLog, handles, allocLog,
               closeLog, snaps>>

\* Tagged: copy and sanitize the tags, ask for a subscope with s.prefix; the
\* step ends with the caller queued on the registry's lock
Tagged(t, s, tags) ==
  /\ pc[t] = "idle"
  /\ ncalls.tree < MaxTreeCalls
  /\ s \in 1..Len(scopes)
  /\ frame' = [frame EXCEPT ![t] =
       [IdleFrame EXCEPT !.op = "tagged", !.s = s, !.name = scopes[s].prefix,
                         !.tags = copyAndSanitizeMap(tags), !.r = 1]]
  /\ registryMu' = LockBegin(registryMu, t)
  /\ pc' = [pc EXCEPT ![t] = "sub_acquire"]
  /\ ncalls' = [ncalls EXCEPT !.tree = @ + 1]
  /\ UNCHANGED <<treeFrame, maps, scopes, registry, returned, paths>>

\* SubScope: sanitize the prefix, ask for a subscope with the fully-qualified
\* prefix and nil tags
SubScope(t, s, prefix) ==
  /\ pc[t] = "idle"
  /\ ncalls.tree < MaxTreeCalls
  /\ s \in 1..Len(scopes)
  /\ frame' = [frame EXCEPT ![t] =
       [IdleFrame EXCEPT !.op = "subscope", !.s = s,
                         !.name = ScopeFQN(scopes[s], SanitizeName(prefix)),
                         !.seg = prefix]]
  /\ registryMu' = LockBegin(registryMu, t)
  /\ pc' = [pc EXCEPT ![t] = "sub_acquire"]
  /\ ncalls' = [ncalls EXCEPT !.tree = @ + 1]
  /\ UNCHANGED <<treeFrame, maps, scopes, registry, returned, paths>>

\* registry.Subscope: the caller waits for the registry's lock
SubscopeLockAcquire(t) ==
  /\ pc[t] = "sub_acquire"
  /\ CanLock(registryMu, t)
  /\ registryMu' = Lock(registryMu, t)
  /\ pc' = [pc EXCEPT ![t] = "sub_body"]
  /\ UNCHANGED <<treeFrame, maps, scopes, registry, returned, paths, frame, ncalls>>

\* the registry's key for a request: the prefix and the parent's tags
\* overridden by the request's tags
scopeRegistryKey(prefix, parentTags, tags) ==
  ScopeKey(prefix,
           [k \in DOMAIN parentTags \cup DOMAIN tags |->
              IF k \in DOMAIN tags THEN tags[k] ELSE parentTags[k]])

\* the tag map of a new subscope: mergeRightTags(parent.tags, tags), tags
\* being the copy made by Tagged (hasTags) or nil (SubScope). The copy is kept
\* on the heap only when the merge returns it.
SubscopeTags(parentRef, hasTags, tags) ==
  LET tmp == IF hasTags THEN Append(maps, tags) ELSE maps
      tagsRef == IF hasTags THEN Len(maps) + 1 ELSE NilRef
      m == mergeRightTags(tmp, parentRef, tagsRef)
      kept == SubSeq(m.heap, 1, Len(maps))
  IN IF m.ref = NilRef \/ m.ref <= Len(maps)
     THEN [ref |-> m.ref, heap |-> kept]
     ELSE [ref |-> Len(maps) + 1, heap |-> Append(kept, m.heap[m.ref])]

\* the paths by which the scope a request returns has now been reached
ReachedBy(t) ==
  IF frame[t].op = "subscope"
  THEN {Append(path, frame[t].seg) : path \in paths[frame[t].s]}
  ELSE paths[frame[t].s]

\* registry.Subscope under its lock: return the scope registered under the
\* key, or build the child, register it and return it
SubscopeBody(t) ==
  /\ pc[t] = "sub_body"
  /\ LET parent == scopes[frame[t].s]
         key == scopeRegistryKey(frame[t].name, MapOf(maps, parent.tags), frame[t].tags)
         m == SubscopeTags(parent.tags, frame[t].r = 1, frame[t].tags)
         new == Len(scopes) + 1
     IN IF key \in DOMAIN registry
        THEN /\ Return(t, registry[key], "hit")
             /\ paths' = [paths EXCEPT ![registry[key]] = @ \cup ReachedBy(t)]
             /\ UNCHANGED <<maps, scopes, registry>>
        ELSE /\ maps' = m.heap
             /\ scopes' = Append(scopes, NewScope(frame[t].name, m.ref))
             /\ registry' = (key :> new) @@ registry
             /\ paths' = Append(paths, ReachedBy(t))
             /\ Return(t, new, "new")
  /\ registryMu' = Unlock(registryMu, t)
  /\ UNCHANGED <<treeFrame, ncalls>>

\* ---------------------------------------------------- Snapshot (476-534)
\* KeyForPrefixedStringMap: an identity derived from the name and the tags
KeyForPrefixedStringMap(name, tags) == <<name, tags>>

\* counter.snapshot(), gauge.snapshot(), timer.snapshot(),
\* histogram.snapshotValues()/snapshotDurations(): copies of the live values
SnapshotValue(o) ==
  CASE o.kind = "counter" -> CounterDelta(o)
    [] o.kind = "gauge" -> o.curr
    [] o.kind = "timer" -> o.unreported
    [] o.kind = "histogram" -> o.samples

\* newSnapshot(): a fresh snapshot object (its index on the heap `snaps`)
ReusedSnapshot(sn) == 1
newSnapshot(sn) == Len(sn) + 1

EmptySnapshot == [k \in Kinds |-> <<>>]

\* the entry written for metric n of kind k of scope s; the scope's tags were
\* copied to the fresh map tagsRef (lines 481-484)
SnapshotEntryShortName(s, k, n, tagsRef) ==
  [name |-> n, tags |-> tagsRef,
   value |-> SnapshotValue(objs[scopes[s].maps[k][n]])]
SnapshotEntry(s, k, n, tagsRef) ==
  [name |-> ScopeFQN(scopes[s], n),
   tags |-> tagsRef,
   value |-> SnapshotValue(objs[scopes[s].maps[k][n]])]

SnapshotId(s, n) ==
  KeyForPrefixedStringMap(ScopeFQN(scopes[s], n), MapOf(maps, scopes[s].tags))

\* all orders in which ForEachScope may visit the scopes
VisitOrders ==
  {o \in [1..Len(scopes) -> 1..Len(scopes)] :
     \A i \in 1..Len(scopes), j \in 1..Len(scopes) : i # j => o[i] # o[j]}

\* the map of kind k after the visits in `order` wrote into `base`: an entry
\* written later replaces one with the same id
SnapshotKind(base, k, order, tagsBase) ==
  LET ids == {SnapshotId(s, n) : s \in 1..Len(scopes), n \in AllNames}
      written == {<<i, n>> \in (1..Len(scopes)) \X (AllNames) :
                    n \in DOMAIN scopes[order[i]].maps[k]}
      idsWritten == {SnapshotId(order[w[1]], w[2]) : w \in written}
      last(id) == CHOOSE w \in written :
                    /\ SnapshotId(order[w[1]], w[2]) = id
                    /\ \A v \in written :
                         SnapshotId(order[v[1]], v[2]) = id => v[1] <= w[1]
  IN [id \in DOMAIN base \cup idsWritten |->
        IF id \in idsWritten
        THEN SnapshotEntry(order[last(id)[1]], k, last(id)[2],
                           tagsBase + order[last(id)[1]])
        ELSE base[id]]

\* lines 476-534: the snapshot filled scope by scope, the tags of every entry
\* being a fresh copy of the scope's map
SnapshotFill ==
  /\ \E order \in VisitOrders :
       LET ref == newSnapshot(snaps)
           base == IF ref <= Len(snaps) THEN snaps[ref] ELSE EmptySnapshot
           filled == [k \in Kinds |-> SnapshotKind(base[k], k, order, Len(maps))]
       IN snaps' = IF ref <= Len(snaps) THEN [snaps EXCEPT ![ref] = filled]
                   ELSE Append(snaps, filled)
  /\ maps' = maps \o [s \in 1..Len(scopes) |-> MapOf(maps, scopes[s].tags)]

Snapshot ==
  /\ ncalls.snap < MaxSnaps
  /\ registryMu.w = {} /\ registryMu.p = {}
  /\ \A s \in 1..Len(scopes), k \in Kinds : CanRLock(scopes[s].mu[k])
  /\ SnapshotFill
  /\ ncalls' = [ncalls EXCEPT !.snap = @ + 1]
  /\ UNCHANGED <<cfg, scopes, registry, registryMu, objs, status, ticker, loopPc,
                 pc, frame, reporterLog, handles, allocLog, returned, closeLog,
                 paths>>

\* s.Gauge(n), s.Timer(n), s.Histogram(n, b) by a caller, run to the end
GetMetric(s, k, n, b) ==
  /\ ncalls.upd < MaxTreeOps
  /\ s \in 1..Len(scopes)
  /\ LET r == GetOrInsert(s, k, SanitizeName(n), b)
     IN /\ objs' = r.objs
        /\ scopes' = r.scopes
        /\ handles' = r.handles
        /\ allocLog' = allocLog \o r.alloc
  /\ ncalls' = [ncalls EXCEPT !.upd = @ + 1]
  /\ UNCHANGED <<progVars, pc, frame, returned>>

TreeCounterInc(s, n, v) == ncalls.upd < MaxTreeOps /\ CounterIncCall(s, n, v)

TreeTagInputs == {<<>>, [env |-> "staging"]}
TreePrefixInputs == {"", "db"}
TreeIncs == {<<"q", 1>>, <<"db.q", 4>>}

TreeNext ==
  \/ \E t \in Threads, s \in 1..Len(scopes), tags \in TreeTagInputs : Tagged(t, s, tags)
  \/ \E t \in Threads, s \in 1..Len(scopes), p \in TreePrefixInputs : SubScope(t, s, p)
  \/ \E t \in Threads : SubscopeLockAcquire(t)
  \/ \E t \in Threads : SubscopeBody(t)
  \/ \E s \in 1..Len(scopes), i \in TreeIncs : CounterInc(s, i[1], i[2])

TreeInit ==
  \E c \in {<<"", <<>>>>, <<"svc", [env |-> "prod"]>>} :
     InitState([reporter |-> "none", interval |-> 0, prefix |-> c[1],
                tags |-> c[2], closer |-> "none"])

SpecTree == TreeInit /\ [][TreeNext]_vars

\* Close by a caller while no other Close is in flight, run to its return
\* (lines 536-554)
CloseCall(t) ==
  /\ pc[t] = "idle"
  /\ ncalls.close < MaxCloses
  /\ status.mu = FreeMutex
  /\ CanRLock(registryMu)
  /\ IF CloseSeesClosed(status)
     THEN /\ closeLog' = Append(closeLog, [ev |-> "return", t |-> t, first |-> FALSE,
                                           ret |-> "nil"])
          /\ UNCHANGED <<status, objs, reporterLog>>
     ELSE /\ status' = [status EXCEPT !.closed = TRUE,
                                      !.quit = CloseChannel(status.quit)]
          /\ objs' = ObjsAfterPass
          /\ reporterLog' = reporterLog \o ReportEntries("close") \o FlushEntries("close")
               \o (IF cfg.reporter # "none" /\ cfg.closer # "none"
                   THEN <<[op |-> "Close", by |-> "close", items |-> {}]>>
                   ELSE <<>>)
          /\ closeLog' = closeLog \o
               <<[ev |-> "closed", t |-> t, first |-> TRUE, ret |-> ""],
                 [ev |-> "quit", t |-> t, first |-> TRUE, ret |-> ""],
                 [ev |-> "final", t |-> t, first |-> TRUE, ret |-> ""],
                 [ev |-> "return", t |-> t, first |-> TRUE, ret |-> CloserResult(cfg)]>>
  /\ ncalls' = [ncalls EXCEPT !.close = @ + 1]
  /\ UNCHANGED <<closeFrame, pc, frame>>

\* the calls begun so far, of all operations together
SnapBudget == ncalls.tree + ncalls.upd + ncalls.snap + ncalls.close < MaxSnapSteps

SnapNext ==
  \/ SnapBudget /\ \E t \in Threads, s \in 1..Len(scopes) : SubScope(t, s, "db")
  \/ \E t \in Threads : SubscopeLockAcquire(t)
  \/ \E t \in Threads : SubscopeBody(t)
  \/ SnapBudget /\ \E s \in 1..Len(scopes), i \in TreeIncs : TreeCounterInc(s, i[1], i[2])
  \/ SnapBudget /\ \E s \in 1..Len(scopes) : GetMetric(s, "gauge", "q", NilBuckets)
  \/ SnapBudget /\ Snapshot
  \/ SnapBudget /\ \E t \in Threads : CloseCall(t)

SnapInit ==
  \E c \in {<<"", <<>>, "none">>, <<"svc", [env |-> "prod"], "push">>} :
     InitState([reporter |-> c[3], interval |-> 0, prefix |-> c[1],
                tags |-> c[2], closer |-> "none"])

SpecSnap == SnapInit /\ [][SnapNext]_vars

\* the scheduling the code relies on: a goroutine that can run does run, a
\* writer waiting in Lock holds back new readers, and select picks among its
\* ready cases at random, so the quit case cannot lose forever
CloseSteps(t) ==
  \/ CloseLockBegin(t) \/ CloseLockAcquire(t) \/ CloseCheck(t) \/ CloseMark(t)
  \/ CloseReport(t) \/ CloseFlush(t) \/ CloseCloser(t)

CloseFairness ==
  /\ WF_vars(LoopRLock)
  /\ WF_vars(LoopCheck)
  /\ WF_vars(LoopReport)
  /\ WF_vars(LoopFlush)
  /\ SF_vars(LoopSelectQuit)
  /\ \A t \in Threads : WF_vars(CloseSteps(t))

\* the loop's termination does not depend on the reporter: one configuration
CloseFairInit ==
  InitState([reporter |-> "push", interval |-> 1, prefix |-> "svc",
             tags |-> <<>>, closer |-> "none"])

SpecCloseFair == CloseFairInit /\ [][CloseNext]_vars /\ CloseFairness

\* ------------------------ roots with and without a loop, every closer
\* one root with a reporting loop, and roots built with interval <= 0 for
\* every reporter and closer
LifeConfigs ==
  {[reporter |-> "push", interval |-> 1, prefix |-> "svc", tags |-> <<>>,
    closer |-> "err"]}
  \cup
  {[reporter |-> r, interval |-> i, prefix |-> "svc", tags |-> <<>>, closer |-> cl] :
     r \in {"none", "push", "cached", "both"}, i \in {-1, 0},
     cl \in {"none", "ok", "err"}}

LifeInit == \E c \in LifeConfigs : InitState(c)

SpecLife == LifeInit /\ [][CloseNext]_vars

\* ------------------------------------------------ lock steps of the sweeps
\* report (212-232), cachedReport (234-254) and Snapshot's visitor (476-534)
\* take one kind lock after the other; here every RLock and RUnlock is a step
\* of its own, run by a caller thread or by the loop's goroutine

MaxLockCalls == 2

Agents == Threads \cup {LoopThread}
AgentPc(a) == IF a = LoopThread THEN loopPc ELSE pc[a]
SetAgentPc(a, v) ==
  IF a = LoopThread THEN loopPc' = v /\ UNCHANGED pc
  ELSE pc' = [pc EXCEPT ![a] = v] /\ UNCHANGED loopPc

\* the kind locks in the order the sweep takes them: report and cachedReport
\* skip the timers, Snapshot's visitor does not
SweepOrder(op) ==
  IF op = "snapshot" THEN <<"counter", "gauge", "timer", "histogram">>
  ELSE <<"counter", "gauge", "histogram">>

\* lines 217, 223, 231 and 495, 506, 517, 530: the RUnlock that ends a kind
SweepKeepsLock(mu, a) == mu
SweepRelease(mu, a) == RUnlock(mu, a)

sweepFrame == <<cfg, maps, registry, objs, status, ticker, reporterLog, handles,
                allocLog, returned, closeLog, snaps, paths, ncalls>>

\* registry.Report / CachedReport / ForEachScope: the registry's read lock
SweepRegistryRLock(a) ==
  /\ AgentPc(a) = "sweep_registry"
  /\ CanRLock(registryMu)
  /\ registryMu' = RLock(registryMu, a)
  /\ frame' = [frame EXCEPT ![a].at = 1, ![a].ix = 1]
  /\ SetAgentPc(a, "sweep_rlock")
  /\ UNCHANGED <<sweepFrame, scopes>>

\* s.cm.RLock(), s.gm.RLock(), s.tm.RLock(), s.hm.RLock()
SweepKindRLock(a) ==
  /\ AgentPc(a) = "sweep_rlock"
  /\ LET s == frame[a].at
         k == SweepOrder(frame[a].op)[frame[a].ix]
     IN /\ CanRLock(scopes[s].mu[k])
        /\ scopes' = [scopes EXCEPT ![s].mu[k] = RLock(@, a)]
  /\ SetAgentPc(a, "sweep_runlock")
  /\ UNCHANGED <<sweepFrame, registryMu, frame>>

\* the RUnlock of the kind, then the next kind, the next scope or the end
SweepKindRUnlock(a) ==
  /\ AgentPc(a) = "sweep_runlock"
  /\ LET s == frame[a].at
         order == SweepOrder(frame[a].op)
         k == order[frame[a].ix]
     IN /\ scopes' = [scopes EXCEPT ![s].mu[k] = SweepRelease(@, a)]
        /\ IF frame[a].ix < Len(order)
           THEN /\ frame' = [frame EXCEPT ![a].ix = @ + 1]
                /\ SetAgentPc(a, "sweep_rlock")
           ELSE IF s < Len(scopes)
           THEN /\ frame' = [frame EXCEPT ![a].at = s + 1, ![a].ix = 1]
                /\ SetAgentPc(a, "sweep_rlock")
           ELSE /\ UNCHANGED frame
                /\ SetAgentPc(a, "sweep_done")
  /\ UNCHANGED <<sweepFrame, registryMu>>

\* line 476: Snapshot called
SnapshotBegin(t) ==
  /\ pc[t] = "idle"
  /\ ncalls.snap < MaxSnaps
  /\ frame' = [frame EXCEPT ![t] = [IdleFrame EXCEPT !.op = "snapshot", !.s = 1]]
  /\ pc' = [pc EXCEPT ![t] = "sweep_registry"]
  /\ ncalls' = [ncalls EXCEPT !.snap = @ + 1]
  /\ UNCHANGED <<cfg, maps, scopes, registry, registryMu, objs, status, ticker,
                 loopPc, reporterLog, handles, allocLog, returned, closeLog,
                 snaps, paths>>

\* line 533: the registry's read lock released, the snapshot returned
SnapshotEnd(t) ==
  /\ pc[t] = "sweep_done"
  /\ frame[t].op = "snapshot"
  /\ registryMu' = RUnlock(registryMu, t)
  /\ SnapshotFill
  /\ pc' = [pc EXCEPT ![t] = "idle"]
  /\ frame' = [frame EXCEPT ![t] = IdleFrame]
  /\ UNCHANGED <<cfg, scopes, registry, objs, status, ticker, loopPc, reporterLog,
                 handles, allocLog, returned, closeLog, paths, ncalls>>

\* lines 285-293: a sweep only if a reporter is configured
SweepEntry(c) == IF c.reporter = "none" THEN "sweep_done" ELSE "sweep_registry"

\* line 548 in Close: reportRegistryWithLock entered with the status lock held
CloseSweepBegin(t) ==
  /\ pc[t] = "close_report"
  /\ pc' = [pc EXCEPT ![t] = SweepEntry(cfg)]
  /\ UNCHANGED <<closeFrame, objs, status, reporterLog, closeLog, frame, ncalls>>

\* the final report's values handed over, the registry's read lock released
CloseSweepEnd(t) ==
  /\ pc[t] = "sweep_done"
  /\ frame[t].op = "close"
  /\ registryMu' = RUnlock(registryMu, t)
  /\ ReportPass("close")
  /\ closeLog' = Append(closeLog, [ev |-> "final", t |-> t, first |-> TRUE, ret |-> ""])
  /\ pc' = [pc EXCEPT ![t] = "close_flush"]
  /\ frame' = [frame EXCEPT ![t].at = NilRef, ![t].ix = 0]
  /\ UNCHANGED <<cfg, maps, scopes, registry, status, ticker, loopPc, handles,
                 allocLog, returned, snaps, paths, ncalls>>

\* line 281 in reportLoopRun: reportRegistryWithLock entered
LoopSweepBegin ==
  /\ loopPc = "run_report"
  /\ loopPc' = SweepEntry(cfg)
  /\ UNCHANGED <<loopFrame, objs, status, ticker, reporterLog>>

LoopSweepEnd ==
  /\ loopPc = "sweep_done"
  /\ registryMu' = RUnlock(registryMu, LoopThread)
  /\ ReportPass("tick")
  /\ loopPc' = "run_flush"
  /\ frame' = [frame EXCEPT ![LoopThread] = IdleFrame]
  /\ UNCHANGED <<cfg, maps, scopes, registry, status, ticker, pc, handles,
                 allocLog, returned, closeLog, snaps, paths, ncalls>>

\* the calls begun so far, of all operations together
LockBudget == ncalls.reg + ncalls.tree + ncalls.snap + ncalls.close < MaxLockCalls

LockNext ==
  \/ LockBudget /\ \E t \in Threads : Counter(t, 1, "a")
  \/ \E t \in Threads : FastRLock(t)
  \/ \E t \in Threads : FastLookup(t)
  \/ \E t \in Threads : SlowLockBegin(t)
  \/ \E t \in Threads : SlowLockAcquire(t)
  \/ \E t \in Threads : SlowBody(t)
  \/ LockBudget /\ \E t \in Threads : SubScope(t, 1, "db")
  \/ \E t \in Threads : SubscopeLockAcquire(t)
  \/ \E t \in Threads : SubscopeBody(t)
  \/ LockBudget /\ \E t \in Threads : SnapshotBegin(t)
  \/ \E t \in Threads : SnapshotEnd(t)
  \/ \E a \in Agents : SweepRegistryRLock(a)
  \/ \E a \in Agents : SweepKindRLock(a)
  \/ \E a \in Agents : SweepKindRUnlock(a)
  \/ Tick
  \/ LoopSelectTick
  \/ LoopSelectQuit
  \/ LoopRLock
  \/ LoopCheck
  \/ LoopSweepBegin
  \/ LoopSweepEnd
  \/ LoopFlush
  \/ LockBudget /\ \E t \in Threads : Close(t)
  \/ \E t \in Threads : CloseLockBegin(t)
  \/ \E t \in Threads : CloseLockAcquire(t)
  \/ \E t \in Threads : CloseCheck(t)
  \/ \E t \in Threads : CloseMark(t)
  \/ \E t \in Threads : CloseSweepBegin(t)
  \/ \E t \in Threads : CloseSweepEnd(t)
  \/ \E t \in Threads : CloseFlush(t)
  \/ \E t \in Threads : CloseCloser(t)

LockInit ==
  InitState([reporter |-> "push", interval |-> 1, prefix |-> "svc",
             tags |-> <<>>, closer |-> "none"])

SpecLocks == LockInit /\ [][LockNext]_vars

\* ----------------------------------- increments racing the passes and Close
\* the k-th increment adds k, which tells the increments apart in the sums
MaxIncs == 2

DeliverNext ==
  \/ Tick
  \/ LoopSelectTick
  \/ LoopSelectQuit
  \/ LoopRLock
  \/ LoopCheck
  \/ LoopReport
  \/ LoopFlush
  \/ \E t \in Threads : Close(t)
  \/ \E t \in Threads : CloseLockBegin(t)
  \/ \E t \in Threads : CloseLockAcquire(t)
  \/ \E t \in Threads : CloseCheck(t)
  \/ \E t \in Threads : CloseMark(t)
  \/ \E t \in Threads : CloseReport(t)
  \/ \E t \in Threads : CloseFlush(t)
  \/ \E t \in Threads : CloseCloser(t)
  \/ ncalls.upd < MaxIncs /\ CounterIncCall(1, "a", ncalls.upd + 1)

\* delivery does not depend on the reporter's closer
DeliverInit ==
  \E r \in {"push", "cached"} :
     InitState([reporter |-> r, interval |-> 1, prefix |-> "svc",
                tags |-> <<>>, closer |-> "none"])

SpecDeliver == DeliverInit /\ [][DeliverNext]_vars

\* ------------------------------------ the caller's own maps and the scopes
\* the maps the caller built: the one passed as opts.Tags to newRootScope
\* and the one it passes to Tagged; the caller is free to write to them at
\* any time
CallerOptsTags == 2
CallerTaggedTags == 3
CallerMaps == {CallerOptsTags, CallerTaggedTags}

\* the caller's m[k] = v on one of its maps
CallerMutates(ref, k, v) ==
  /\ ncalls.upd < MaxTreeOps
  /\ maps' = [maps EXCEPT ![ref] = (k :> v) @@ @]
  /\ ncalls' = [ncalls EXCEPT !.upd = @ + 1]
  /\ UNCHANGED <<cfg, scopes, registry, registryMu, objs, status, ticker, loopPc,
                 pc, frame, reporterLog, handles, allocLog, returned, closeLog,
                 snaps, paths>>

TagsNext ==
  \/ SnapBudget /\ \E ref \in CallerMaps, k \in TagKeys : CallerMutates(ref, k, "us")
  \/ SnapBudget /\ \E t \in Threads, s \in 1..Len(scopes) :
                      Tagged(t, s, maps[CallerTaggedTags])
  \/ SnapBudget /\ \E t \in Threads : SubScope(t, 1, "db")
  \/ \E t \in Threads : SubscopeLockAcquire(t)
  \/ \E t \in Threads : SubscopeBody(t)
  \/ SnapBudget /\ TreeCounterInc(1, "q", 1)
  \/ SnapBudget /\ Snapshot
  \/ SnapBudget /\ \E t \in Threads : CloseCall(t)

\* newRootScope keeps a copy of opts.Tags (lines 197-199): map 1 is the
\* root's, map 2 the caller's
TagsInit ==
  \E tags \in {<<>>, [env |-> "prod"]} :
     /\ InitRest([reporter |-> "push", interval |-> 0, prefix |-> "svc",
                  tags |-> tags, closer |-> "none"])
     /\ maps = <<copyAndSanitizeMap(tags), tags, [env |-> "staging"]>>
     /\ pc = [t \in Threads |-> "idle"]
     /\ frame = [t \in Threads \cup {LoopThread} |-> IdleFrame]

SpecTags == TagsInit /\ [][TagsNext]_vars

\* ------------------------------------------- mergeRightTags on its own
\* the call mergeRightTags(l, r) by thread t, l and r being references to
\* maps on the heap or nil
MergeCall(t) ==
  /\ frame[t].op = "merge"
  /\ LET m == mergeRightTags(maps, frame[t].l, frame[t].r)
     IN /\ maps' = m.heap
        /\ frame' = [frame EXCEPT ![t] = [@ EXCEPT !.op = "merged", !.res = m.ref]]
  /\ UNCHANGED <<cfg, scopes, registry, registryMu, objs, status, ticker, loopPc,
                 pc, reporterLog, handles, allocLog, returned, closeLog, snaps,
                 paths, ncalls>>

MergeNext == \E t \in Threads : MergeCall(t)

\* every pair of tag maps, each either nil, empty or filled
MergeInit ==
  /\ InitRest([reporter |-> "none", interval |-> 0, prefix |-> "",
               tags |-> <<>>, closer |-> "none"])
  /\ pc = [t \in Threads |-> "idle"]
  /\ \E L \in TagMaps, R \in TagMaps, l \in {NilRef, 2}, r \in {NilRef, 3} :
       /\ (l = NilRef => L = <<>>) /\ (r = NilRef => R = <<>>)
       /\ maps = <<<<>>, L, R>>
       /\ frame = [t \in Threads |->
                     IF t = 1 THEN [IdleFrame EXCEPT !.op = "merge", !.l = l, !.r = r]
                     ELSE IdleFrame]

SpecMerge == MergeInit /\ [][MergeNext]_vars

\* ------------------------------------------------------------------ C1
\* the allocations recorded for metric (s, k, n)
AllocationsOf(s, k, n) ==
  {i \in 1..Len(allocLog) :
     allocLog[i][1] = s /\ allocLog[i][2] = k /\ allocLog[i][3] = n}

RegistrationsAgree ==
  /\ \A r1 \in returned, r2 \in returned :
       (r1.s = r2.s /\ r1.kind = r2.kind /\ r1.name = r2.name
          /\ r1.via # "panic" /\ r2.via # "panic") => r1.inst = r2.inst
  /\ \A r \in returned :
       r.via # "panic" =>
         /\ r.name \in DOMAIN scopes[r.s].maps[r.kind]
         /\ scopes[r.s].maps[r.kind][r.name] = r.inst
         /\ Cardinality(AllocationsOf(r.s, r.kind, r.name)) = 1
  /\ \A s \in 1..Len(scopes), k \in Kinds, n \in Names :
       /\ Cardinality(AllocationsOf(s, k, n)) <= 1
       /\ (n \in DOMAIN scopes[s].maps[k]) <=> (AllocationsOf(s, k, n) # {})
       /\ k \in SweptKinds =>
            Cardinality({i \in 1..Len(scopes[s].slices[k]) :
                           n \in DOMAIN scopes[s].maps[k]
                           /\ scopes[s].slices[k][i] = scopes[s].maps[k][n]})
              = Cardinality(AllocationsOf(s, k, n))

InsertedStays ==
  \A s \in 1..Len(scopes), k \in Kinds :
    \A n \in DOMAIN scopes[s].maps[k] :
      /\ n \in DOMAIN scopes'[s].maps[k]
      /\ scopes'[s].maps[k][n] = scopes[s].maps[k][n]

\* C1: for every scope, kind and sanitized name, in every interleaving of
\* registration calls, all calls return the same instance, exactly one
\* instance is allocated and inserted (in the map and in the sweep sequence)
\* for the name, and an inserted instance is never replaced or removed.
C1_SingleInstance == [] RegistrationsAgree /\ [][InsertedStays]_vars

\* two calls raced for one name: both missed on the fast path, one inserted
\* and the other found the instance on its re-check under the write lock
C1_Witness ==
  \E r1 \in returned, r2 \in returned :
    /\ r1.s = r2.s /\ r1.kind = r2.kind /\ r1.name = r2.name
    /\ r1.via = "new" /\ r2.via = "recheck"

\* ------------------------------------------------------------------ C2
TickPassOpen == loopPc \in {"run_report", "run_flush"}
ClosePassOpen == \E t \in Threads : pc[t] \in {"close_report", "close_flush"}

FinalFlushDone ==
  \E i \in 1..Len(reporterLog) :
    reporterLog[i].op = "Flush" /\ reporterLog[i].by = "close"

\* the calls the reporter receives in a step
NewReporterCalls ==
  {reporterLog'[i] : i \in (Len(reporterLog) + 1)..Len(reporterLog')}

NoTickPassWhenClosed ==
  /\ status.closed => ~TickPassOpen
  /\ ~(TickPassOpen /\ ClosePassOpen)

NoReportAfterClose ==
  /\ status.closed => \A e \in NewReporterCalls : e.by = "close"
  /\ FinalFlushDone =>
       \A e \in NewReporterCalls : e.op \notin {"Report", "CachedReport", "Flush"}

\* C2: in every interleaving of ticks with Close, no tick reports or flushes
\* once closed is true, the reporter receives no report and no Flush after
\* Close's final report-and-flush, and a tick's pass never overlaps Close's.
C2_NoReportAfterClose == [] NoTickPassWhenClosed /\ [][NoReportAfterClose]_vars

\* a tick ran after Close's final flush, while a counter held an unreported
\* increment, and was dropped
C2_Witness ==
  /\ FinalFlushDone
  /\ ticker.dropped
  /\ loopPc = "select"
  /\ \E i \in 1..Len(objs) : objs[i].kind = "counter" /\ CounterDelta(objs[i]) # 0

\* ------------------------------------------------------------------ C3
CloseEvents(e) == {i \in 1..Len(closeLog) : closeLog[i].ev = e}
CloseFlushes ==
  {i \in 1..Len(reporterLog) :
     reporterLog[i].op = "Flush" /\ reporterLog[i].by = "close"}

CloseOnce ==
  /\ Cardinality(CloseEvents("closed")) <= 1
  /\ Cardinality(CloseEvents("quit")) <= 1
  /\ Cardinality(CloseEvents("final")) <= 1
  /\ Cardinality(CloseFlushes) <= 1
  /\ status.closed <=> CloseEvents("closed") # {}
  /\ status.quit = "closed" <=> CloseEvents("quit") # {}
  /\ status.quit # "panic"
  /\ \A i \in CloseEvents("return") :
       /\ closeLog[i].ret # "panic"
       /\ ~closeLog[i].first => closeLog[i].ret = "nil"
       /\ status.closed /\ status.quit = "closed"
       /\ Cardinality(CloseEvents("final")) = 1
       /\ Cardinality(CloseFlushes) = 1
  /\ Cardinality({i \in CloseEvents("return") : closeLog[i].first}) <= 1

ClosedStays ==
  /\ status.closed => status'.closed
  /\ status.quit = "closed" => status'.quit = "closed"

\* C3: over any sequence of Close calls, sequential or concurrent, closed goes
\* from false to true exactly once, the quit channel is closed exactly once,
\* exactly one final report-and-flush is performed, and every call after the
\* first returns nil without panicking.
C3_CloseIdempotent == [] CloseOnce /\ [][ClosedStays]_vars

\* two Close calls have returned, the one that closed and a repeated one
C3_Witness ==
  \E i \in CloseEvents("return"), j \in CloseEvents("return") :
    closeLog[i].first /\ ~closeLog[j].first /\ closeLog[i].t # closeLog[j].t

\* ------------------------------------------------------------------ C4
\* C4: once Close has been called on a root scope whose reporting loop runs,
\* the loop eventually terminates, whatever ticks are pending or in progress.
C4_LoopTerminates == (ncalls.close > 0) ~> (loopPc = "done")

\* the loop has returned after handling (and dropping) a tick that was
\* delivered around the Close
C4_Witness == loopPc = "done" /\ ticker.dropped /\ ticker.stopped

\* ------------------------------------------------------------------ C6
HistogramAllocs == {i \in 1..Len(allocLog) : allocLog[i][2] = "histogram"}
StorageOf(i) == objs[allocLog[i][4]].storage

\* C6: within one scope, two histograms registered under different names
\* with identical ordered boundaries and the same type reference the same
\* bucket storage entry, and two histograms whose boundary sequences differ
\* reference different storage entries.
C6_BucketDedup ==
  \A i \in HistogramAllocs, j \in HistogramAllocs :
    (allocLog[i][1] = allocLog[j][1] /\ allocLog[i][3] # allocLog[j][3]) =>
      /\ (allocLog[i][5] = allocLog[j][5]) => StorageOf(i) = StorageOf(j)
      /\ (allocLog[i][5].vals # allocLog[j][5].vals) => StorageOf(i) # StorageOf(j)

\* ------------------------------------------------------------------ C5
\* the requests Tagged and SubScope that have returned
TreeReturns == {r \in returned : r.kind \in {"tagged", "subscope"}}

\* the identity a request resolves to: its prefix, and the tags of the scope
\* it was issued from overridden by the tags it passes
RequestIdentity(r) ==
  LET parent == scopes[r.s]
      over == IF r.kind = "tagged" THEN r.tags ELSE <<>>
      ptags == MapOf(maps, parent.tags)
  IN <<IF r.kind = "subscope"
       THEN (IF parent.prefix = "" THEN r.seg
             ELSE parent.prefix \o DefaultSeparator \o r.seg)
       ELSE parent.prefix,
       [k \in DOMAIN ptags \cup DOMAIN over |->
          IF k \in DOMAIN over THEN over[k] ELSE ptags[k]]>>

IdentityOf(i) == <<scopes[i].prefix, MapOf(maps, scopes[i].tags)>>

\* C5: two requests (Tagged or SubScope, from any scope, in any
\* interleaving) that resolve to the same identity return the same subscope,
\* the scope returned has the identity requested, and no two scopes of the
\* registry have the same identity.
C5_SubscopeSharing ==
  /\ \A r1 \in TreeReturns, r2 \in TreeReturns :
       RequestIdentity(r1) = RequestIdentity(r2) => r1.inst = r2.inst
  /\ \A r \in TreeReturns : IdentityOf(r.inst) = RequestIdentity(r)
  /\ \A i \in RegistryScopes, j \in RegistryScopes :
       IdentityOf(i) = IdentityOf(j) => i = j
  /\ RegistryScopes = 1..Len(scopes)

\* a request issued from one scope built a subscope with overriding tags, and
\* a request issued from another scope was handed the same subscope
C5_Witness ==
  \E r1 \in TreeReturns, r2 \in TreeReturns :
     /\ r1.via = "new" /\ r2.via = "hit"
     /\ r1.inst = r2.inst /\ r1.inst # 1
     /\ r1.s # r2.s
     /\ RequestIdentity(r1) = RequestIdentity(r2)

\* ------------------------------------------------------------------ C7
\* what a holder of snapshot i reads: per kind and id the name, the tags and
\* the value
SnapshotViews ==
  [i \in 1..Len(snaps) |->
     [k \in Kinds |->
        [id \in DOMAIN snaps[i][k] |->
           [name |-> snaps[i][k][id].name,
            tags |-> MapOf(maps, snaps[i][k][id].tags),
            value |-> snaps[i][k][id].value]]]]

SnapshotsKept ==
  \A i \in DOMAIN SnapshotViews :
     i \in DOMAIN SnapshotViews' /\ SnapshotViews'[i] = SnapshotViews[i]

\* C7: once Snapshot has returned, no step of any operation (a metric
\* update, a registration, a new subscope, a report pass, Close, a later
\* Snapshot) changes a name, a tag or a value read from the snapshot.
C7_SnapshotIndependent == [][SnapshotsKept]_vars

\* a snapshot holds value 1 for a counter that has since been incremented to
\* 2, and a second snapshot has been taken after it
C7_Witness ==
  /\ Len(snaps) = 2
  /\ \E s \in 1..Len(scopes) :
       /\ "q" \in DOMAIN scopes[s].maps["counter"]
       /\ objs[scopes[s].maps["counter"]["q"]].curr = 2
       /\ \E id \in DOMAIN snaps[1]["counter"] :
            /\ snaps[1]["counter"][id].name = ScopeFQN(scopes[s], "q")
            /\ snaps[1]["counter"][id].value = 1

\* ------------------------------------------------------------------ C8
\* the registered (scope, name) pairs of kind k
RegisteredPairs(k) ==
  {<<s, n>> \in (1..Len(scopes)) \X AllNames : n \in DOMAIN scopes[s].maps[k]}

PairName(p) ==
  IF scopes[p[1]].prefix = "" THEN p[2]
  ELSE scopes[p[1]].prefix \o DefaultSeparator \o p[2]
PairTags(p) == MapOf(maps, scopes[p[1]].tags)
PairObj(p, k) == objs[scopes[p[1]].maps[k][p[2]]]

LastSnapshot == SnapshotViews[Len(snaps)]

\* the snapshot just taken has one entry per registered pair, each with the
\* pair's name, tags, and for counters the sum of all increments
OneEntryPerPair ==
  \A k \in {"counter", "gauge"} :
     /\ Cardinality(DOMAIN LastSnapshot[k]) = Cardinality(RegisteredPairs(k))
     /\ \A p \in RegisteredPairs(k) :
          \E id \in DOMAIN LastSnapshot[k] :
             /\ LastSnapshot[k][id].name = PairName(p)
             /\ LastSnapshot[k][id].tags = PairTags(p)
             /\ k = "counter" => LastSnapshot[k][id].value = PairObj(p, k).curr

\* C8 as stated: the snapshot returned by Snapshot has, for each kind, as
\* many entries as there are registered (scope, name) pairs, each entry with
\* the metric's fully-qualified name and its scope's tags, each counter entry
\* with the sum of the increments applied to the counter.
C8_OneEntryPerMetric == [][ncalls'.snap # ncalls.snap => OneEntryPerPair']_vars

\* the snapshot just taken has one entry per distinct (fully-qualified name,
\* tags) among the registered pairs; the entry has that name and those tags
\* and, for counters, the increments of one such pair not yet reported
OneEntryPerIdentity ==
  \A k \in {"counter", "gauge"} :
     /\ Cardinality(DOMAIN LastSnapshot[k]) =
          Cardinality({<<PairName(p), PairTags(p)>> : p \in RegisteredPairs(k)})
     /\ \A p \in RegisteredPairs(k) :
          \E id \in DOMAIN LastSnapshot[k] :
             /\ LastSnapshot[k][id].name = PairName(p)
             /\ LastSnapshot[k][id].tags = PairTags(p)
     /\ \A id \in DOMAIN LastSnapshot[k] :
          \E p \in RegisteredPairs(k) :
             /\ LastSnapshot[k][id].name = PairName(p)
             /\ LastSnapshot[k][id].tags = PairTags(p)
             /\ k = "counter" =>
                  LastSnapshot[k][id].value = PairObj(p, k).curr - PairObj(p, k).prev

\* C8 amended: the snapshot returned by Snapshot has, for each kind, one
\* entry per distinct (fully-qualified name, tag set) of the registered
\* metrics, with that name and those tags; a counter entry's value is the sum
\* of the increments applied since the last report pass to one registered
\* counter of that name and those tags.
C8_OneEntryPerIdentity == [][ncalls'.snap # ncalls.snap => OneEntryPerIdentity']_vars

\* a snapshot was taken while two counters of different scopes had the same
\* fully-qualified name and tags and different values
C8_Witness ==
  /\ Len(snaps) >= 1
  /\ \E p \in RegisteredPairs("counter"), q \in RegisteredPairs("counter") :
       /\ p # q
       /\ PairName(p) = PairName(q) /\ PairTags(p) = PairTags(q)
       /\ PairObj(p, "counter").curr # PairObj(q, "counter").curr
       /\ \E id \in DOMAIN LastSnapshot["counter"] :
            LastSnapshot["counter"][id].name = PairName(p)

\* ------------------------------------------------------------------ C9
RECURSIVE JoinSegments(_, _)
JoinSegments(segs, sep) ==
  IF Len(segs) = 0 THEN ""
  ELSE IF Len(segs) = 1 THEN segs[1]
       ELSE segs[1] \o sep \o JoinSegments(Tail(segs), sep)

RECURSIVE DropLeadingEmpty(_)
DropLeadingEmpty(segs) ==
  IF Len(segs) > 1 /\ segs[1] = "" THEN DropLeadingEmpty(Tail(segs)) ELSE segs

\* fullyQualifiedName is the name alone under an empty prefix and prefix,
\* separator, name otherwise
NameRule ==
  \A s \in 1..Len(scopes), n \in AllNames :
     ScopeFQN(scopes[s], n) =
       IF scopes[s].prefix = "" THEN n
       ELSE scopes[s].prefix \o DefaultSeparator \o n

\* the scope returned by SubScope(p) has the parent's fullyQualifiedName(p)
\* as its prefix
SubScopePrefixRule ==
  \A r \in TreeReturns :
     r.kind = "subscope" =>
       scopes[r.inst].prefix =
         fullyQualifiedName(scopes[r.s].prefix, DefaultSeparator, r.seg)

\* the names under which the metrics registered in scope s are reported
RegisteredNames(s) ==
  {<<n, ScopeFQN(scopes[s], n)>> :
     n \in UNION {DOMAIN scopes[s].maps[k] : k \in Kinds}}

\* C9 as stated: fullyQualifiedName follows the name rule, SubScope(p) gives
\* the prefix fullyQualifiedName(p) of its parent, and a metric n registered
\* under subscopes p1..pk of a root with prefix r has the name r, p1, .., pk,
\* n joined by the separator.
C9_JoinedName ==
  /\ NameRule
  /\ SubScopePrefixRule
  /\ \A s \in 1..Len(scopes) : \A path \in paths[s], m \in RegisteredNames(s) :
       m[2] = JoinSegments(Append(path, m[1]), DefaultSeparator)

\* C9 amended: the same, the name of the metric being r, p1, .., pk, n
\* without its leading empty segments, joined by the separator.
C9_JoinedNonEmptyLead ==
  /\ NameRule
  /\ SubScopePrefixRule
  /\ \A s \in 1..Len(scopes) : \A path \in paths[s], m \in RegisteredNames(s) :
       m[2] = JoinSegments(DropLeadingEmpty(Append(path, m[1])), DefaultSeparator)

\* a counter "q" registered under subscope "db" of a subscope of a root: once
\* with the root's prefix empty, once with prefix "svc"
C9_Witness ==
  \E s \in 1..Len(scopes) : \E path \in paths[s] :
     /\ Len(path) = 3 /\ path[3] = "db"
     /\ "q" \in DOMAIN scopes[s].maps["counter"]
     /\ ScopeFQN(scopes[s], "q") \in {"db.q", "svc.db.db.q"}

\* ----------------------------------------------------------------- C10
\* C10: mergeRightTags(L, R) returns a tag set whose keys are exactly the
\* keys of L and of R, with R[k] for every key k of R and L[k] for every other
\* key, whether L and R are nil, empty or filled.
C10_MergeRightWins ==
  \A t \in Threads :
     frame[t].op = "merged" =>
       LET L == MapOf(maps, frame[t].l)
           R == MapOf(maps, frame[t].r)
           out == MapOf(maps, frame[t].res)
       IN /\ DOMAIN out = DOMAIN L \cup DOMAIN R
          /\ \A k \in DOMAIN out : out[k] = IF k \in DOMAIN R THEN R[k] ELSE L[k]

\* the merge of {env: prod} with {env: staging, region: us} has returned
C10_Witness ==
  \E t \in Threads :
     /\ frame[t].op = "merged"
     /\ MapOf(maps, frame[t].l) = [env |-> "prod"]
     /\ MapOf(maps, frame[t].r) = [env |-> "staging", region |-> "us"]
     /\ MapOf(maps, frame[t].res) = [env |-> "staging", region |-> "us"]

\* ----------------------------------------------------------------- C11
\* the returns of the Close calls that found the scope open
FirstReturns ==
  {i \in 1..Len(closeLog) : closeLog[i].ev = "return" /\ closeLog[i].first}

\* the error of the closer of the underlying reporter, nil without one
ExpectedCloseError ==
  IF cfg.reporter # "none" /\ cfg.closer = "err" THEN "err" ELSE "nil"

CloserCalls == {i \in 1..Len(reporterLog) : reporterLog[i].op = "Close"}

\* C11: the first Close returns exactly the error of the reporter's closer
\* (nil when the closer succeeds or there is none), the closer is called only
\* after Close's final report and Flush, at most once, and the scope is
\* closed when the first Close returns, whatever the closer returned.
C11_CloseError ==
  /\ \A i \in FirstReturns :
       /\ closeLog[i].ret = ExpectedCloseError
       /\ status.closed
       /\ (cfg.reporter # "none" /\ cfg.closer # "none") => CloserCalls # {}
  /\ \A i \in CloserCalls :
       /\ i > 2
       /\ reporterLog[i - 1].op = "Flush" /\ reporterLog[i - 1].by = "close"
       /\ reporterLog[i - 2].op \in {"Report", "CachedReport"}
       /\ reporterLog[i - 2].by = "close"
  /\ Cardinality(CloserCalls) <= 1
  /\ Cardinality(FirstReturns) <= 1

\* the first Close has returned the error of a failing closer, after its
\* report and Flush, and the scope is closed
C11_Witness ==
  /\ cfg.closer = "err"
  /\ \E i \in FirstReturns : closeLog[i].ret = "err"
  /\ CloserCalls # {}
  /\ status.closed

\* ----------------------------------------------------------------- C12
ReportCalls ==
  {i \in 1..Len(reporterLog) : reporterLog[i].op \in {"Report", "CachedReport"}}
FlushCalls == {i \in 1..Len(reporterLog) : reporterLog[i].op = "Flush"}

OtherBucketReturns ==
  {r \in returned : r.kind = "histogram" /\ r.b.type = "other"}

AlwaysRejected == \A r \in OtherBucketReturns : r.via = "panic" /\ r.inst = NilRef

\* the step that ends such a call leaves the histogram map, the sweep
\* sequence and the bucket cache of the scope as they were
RejectLeavesScope ==
  \A t \in Threads :
     (pc[t] = "slow_body" /\ frame[t].op = "histogram" /\ frame[t].b.type = "other"
      /\ pc'[t] = "idle") =>
       /\ scopes'[frame[t].s].maps = scopes[frame[t].s].maps
       /\ scopes'[frame[t].s].slices = scopes[frame[t].s].slices
       /\ scopes'[frame[t].s].bucketCache = scopes[frame[t].s].bucketCache

\* C13: every Histogram call whose bucket set is neither a duration nor a
\* value sequence is rejected and returns no histogram, whatever the name and
\* whatever is registered, and leaves the scope's histogram map, sweep
\* sequence and bucket cache unchanged.
C13_OtherBucketsRejected == [] AlwaysRejected /\ [][RejectLeavesScope]_vars

\* ----------------------------------------------------------------- C14
\* the lock an agent is about to take is not available
Blocked(a) ==
  LET at == AgentPc(a)
  IN \/ /\ at = "fast_rlock"
        /\ ~CanRLock(scopes[frame[a].s].mu[frame[a].op])
     \/ /\ at = "slow_acquire"
        /\ ~CanLock(scopes[frame[a].s].mu[frame[a].op], a)
     \/ at = "sub_acquire" /\ ~CanLock(registryMu, a)
     \/ at = "close_acquire" /\ ~CanLock(status.mu, a)
     \/ at = "run_rlock" /\ ~CanRLock(status.mu)
     \/ at = "sweep_registry" /\ ~CanRLock(registryMu)
     \/ /\ at = "sweep_rlock"
        /\ ~CanRLock(scopes[frame[a].at].mu[SweepOrder(frame[a].op)[frame[a].ix]])

\* an agent inside a call; the loop between two ticks is not
InCall(a) ==
  IF a = LoopThread THEN loopPc \notin {"none", "select", "done"}
  ELSE pc[a] # "idle"

\* whenever calls are under way, one of them can take its next step; the
\* calls being finitely many, a set of agents waiting for one another would
\* remain as the only ones under way
SomeCallProceeds ==
  (\E a \in Agents : InCall(a)) => (\E a \in Agents : InCall(a) /\ ~Blocked(a))

HeldKinds(a, s) ==
  {k \in Kinds : a \in scopes[s].mu[k].r \cup scopes[s].mu[k].w}

OneKindAtATime ==
  \A a \in Agents : \A s \in 1..Len(scopes) : Cardinality(HeldKinds(a, s)) <= 1

\* C14: no interleaving of registrations, SubScope, Snapshot, ticks and Close
\* reaches a state where the calls under way all wait for a lock, and no
\* thread holds the locks of two metric kinds of a scope at the same time.
C14_NoDeadlock == SomeCallProceeds /\ OneKindAtATime

\* the loop's pass holds the status lock, the registry's lock and a kind's
\* lock of the root, a Close waits for the first and a registration for the
\* last
C14_Witness ==
  /\ loopPc = "sweep_runlock"
  /\ \E k \in Kinds : LoopThread \in scopes[1].mu[k].r
  /\ LoopThread \in registryMu.r
  /\ LoopThread \in status.mu.r
  /\ \E t \in Threads : pc[t] = "close_acquire" /\ Blocked(t)
  /\ \E t \in Threads : pc[t] = "slow_acquire" /\ Blocked(t)

\* ----------------------------------------------------------------- C15
\* the calls the cached reporter has received: the handles allocated from it
\* and the CachedReport passes; Report, Flush and Close go to the push
\* reporter whenever one is configured (lines 163-168 and 285-293)
CachedReporterCalls ==
  {<<"Allocate", i>> : i \in 1..Len(handles)}
    \cup {<<"CachedReport", i>> : i \in {j \in 1..Len(reporterLog) :
                                           reporterLog[j].op = "CachedReport"}}

\* C15: a root configured with both a Reporter and a CachedReporter drives
\* only the one selected as active at construction, the Reporter: the
\* CachedReporter receives no call, neither a handle allocation nor a report.
C15_OneReporterVariant == cfg.reporter = "both" => CachedReporterCalls = {}

\* ----------------------------------------------------------------- C16
\* C16: the storage a histogram references was created for a bucket set of
\* the histogram's own type: storage created for duration buckets is never
\* reused for a value histogram of the scope, nor the reverse.
C16_TypedIdentity ==
  \A i \in HistogramAllocs : objs[StorageOf(i)].htype = objs[allocLog[i][4]].htype

\* ----------------------------------------------------------------- C17
\* the AllocateHistogram calls the cached reporter has received for scope s
HistogramHandles(s) ==
  {i \in 1..Len(handles) :
     handles[i].kind = "histogram" /\ handles[i].tags = scopes[s].tags}

\* C17: with a cached reporter, AllocateHistogram is called on a bucket-cache
\* miss only: a scope has received as many histogram handles as its bucket
\* cache has entries, a call that hits the cache allocating none.
C17_AllocateOnMiss ==
  HasCachedReporter(cfg) =>
    \A s \in 1..Len(scopes) :
       Cardinality(HistogramHandles(s)) = Cardinality(DOMAIN scopes[s].bucketCache)

\* ----------------------------------------------------------------- C18
\* the handle histogram object h reports through: the one its bucket storage
\* was built with
ReportHandle(h) == objs[objs[h].storage].cached

\* C18: with a cached reporter, every registered histogram reports through
\* the handle allocated for its own fully-qualified name and tags, also when
\* its bucket storage is shared with a histogram registered earlier.
C18_OwnHandle ==
  HasCachedReporter(cfg) =>
    \A i \in HistogramAllocs :
       LET h == allocLog[i][4]
       IN /\ ReportHandle(h) # NilRef
          /\ handles[ReportHandle(h)].name = objs[h].name
          /\ handles[ReportHandle(h)].tags = objs[h].tags

\* ----------------------------------------------------------------- C19
\* what pass e reported for counter n of the root: the value handed to the
\* push reporter under the counter's name, or to the counter's cached handle
PassValue(e, n) ==
  LET its == {it \in e.items :
                /\ it.kind = "counter"
                /\ IF e.op = "Report" THEN it.name = ScopeFQN(scopes[1], n)
                   ELSE it.handle = objs[scopes[1].maps["counter"][n]].cached}
  IN IF its = {} THEN 0 ELSE (CHOOSE it \in its : TRUE).value

RECURSIVE SumReported(_, _)
SumReported(log, n) ==
  IF log = <<>> THEN 0
  ELSE (IF Head(log).op \in {"Report", "CachedReport"} THEN PassValue(Head(log), n)
        ELSE 0) + SumReported(Tail(log), n)

RootCounters == DOMAIN scopes[1].maps["counter"]
Applied(n) == objs[scopes[1].maps["counter"][n]].curr

\* nothing is reported that was not applied, nothing twice
NeverOverReported == \A n \in RootCounters : SumReported(reporterLog, n) <= Applied(n)

\* the step that makes Close's final pass
FinalPassStep ==
  \E i \in DOMAIN closeLog' : i \notin DOMAIN closeLog /\ closeLog'[i].ev = "final"

\* after the final pass the passes together have reported all that was
\* applied until then, so all that was applied before Close was called
FinalPassDelivers ==
  FinalPassStep =>
    \A n \in RootCounters : SumReported(reporterLog', n) = Applied(n)

\* C19: with a reporter, the values the passes report for a counter never
\* exceed the increments applied to it, and with Close's final pass they sum
\* to all increments applied before it: every increment made before Close is
\* called is delivered in exactly one pass.
C19_DeliveredOnce == [] NeverOverReported /\ [][FinalPassDelivers]_vars

\* counter a was incremented by 1 and by 2; a periodic pass delivered the
\* first increment and Close's final pass the second
C19_Witness ==
  /\ \E i \in 1..Len(closeLog) : closeLog[i].ev = "final"
  /\ "a" \in RootCounters /\ Applied("a") = 3
  /\ \E i \in 1..Len(reporterLog), j \in 1..Len(reporterLog) :
       /\ i < j
       /\ reporterLog[i].by = "tick" /\ PassValue(reporterLog[i], "a") = 1
       /\ reporterLog[j].by = "close" /\ PassValue(reporterLog[j], "a") = 2

\* ----------------------------------------------------------------- C20
\* the loop's select takes the tick case: reportLoopRun is called
TickHandlerStarts == loopPc = "select" /\ loopPc' = "run_rlock"

\* C20: once Close has closed the quit channel the loop handles no further
\* tick: no step starts reportLoopRun while the channel is closed.
C20_NoTickAfterCancel == [][status.quit = "closed" => ~TickHandlerStarts]_vars

\* ----------------------------------------------------------------- C21
\* a step leaves the prefix and the tags of every existing scope as they are
TagsFrozen ==
  \A s \in 1..Len(scopes) :
     /\ scopes'[s].prefix = scopes[s].prefix
     /\ MapOf(maps', scopes'[s].tags) = MapOf(maps, scopes[s].tags)

\* C21: once a scope is built its prefix and tags never change: no Tagged,
\* SubScope, registration, report, Snapshot or Close, and no write by the
\* caller to the map it passed to newRootScope or to Tagged, alters the tags
\* of an existing scope, a parent from whose map a child was derived
\* included.
C21_TagsImmutable == [][TagsFrozen]_vars

\* the root was built from {env: prod} and a child was derived from it by
\* Tagged({env: staging}); the caller has since written to both of its maps,
\* and the root still has its tags
C21_Witness ==
  /\ MapOf(maps, scopes[1].tags) = [env |-> "prod"]
  /\ maps[CallerOptsTags] # [env |-> "prod"]
  /\ maps[CallerTaggedTags] # [env |-> "staging"]
  /\ \E r \in returned :
       /\ r.kind = "tagged" /\ r.s = 1 /\ r.via = "new"
       /\ MapOf(maps, scopes[r.inst].tags) = [env |-> "staging"]

====
